---- MODULE Spec2Model ----
(***************************************************************************)
(* Model of the image-store core of zstack-utility:                        *)
(*   - the manifest/tag catalog (registry/storage/searcher.go),            *)
(*   - the upload sessions opened by PrepareBlobUpload,                    *)
(*   - the pull client (buildChain, Pull, doPull, downloadChunks),         *)
(*   - the chunked upload of repoadmin (uploadFile).                       *)
(*                                                                         *)
(* Strings are sequences of one-token strings, so that strings.ToLower,    *)
(* strings.TrimSpace and digest-prefix matching are computed, not assumed. *)
(* The token "sha256:" stands for the "algorithm:" head of a digest.       *)
(***************************************************************************)
EXTENDS Integers, Sequences, FiniteSets, TLC

VARIABLES
    storage,    \* the storage driver: path -> content (searcher.go:77)
    pm,         \* the PutManifest call in progress, per caller
    result,     \* what the last completed catalog operation returned
    uuids,      \* how many upload session ids utils.NewUUID has generated
    lfs,        \* the client's local files: path -> content
    pull,       \* the frame of ZImageClient.Pull
    dp,         \* the frame of ZImageClient.doPull
    cresult,    \* what the last client call returned
    calls,      \* how many client calls (Pull, doPull) have been made
    up,         \* the frame of repoadmin's uploadFile
    done        \* per concurrent caller, its PutManifest call that returned

serverVars == <<storage, pm, result, uuids>>

clientVars == <<lfs, pull, dp, cresult, calls>>

\* the state of uploadFile and of the concurrent callers
restVars == <<up, done>>

\* what the catalog operations, and what the client operations, leave alone
outsideCatalog == <<clientVars, restVars>>

outsideClient == <<serverVars, restVars>>

\* what uploadFile leaves alone
outsideUpload == <<serverVars, clientVars, done>>

vars == <<storage, pm, result, uuids, lfs, pull, dp, cresult, calls, up, done>>

-----------------------------------------------------------------------------
(* Strings                                                                 *)

LowerOf(c) ==
    CASE c = "A" -> "a"
      [] c = "B" -> "b"
      [] c = "T" -> "t"
      [] c = "N" -> "n"
      [] c = "SHA256:" -> "sha256:"
      [] OTHER -> c

\* strings.ToLower
ToLower(s) == [i \in 1..Len(s) |-> LowerOf(s[i])]

RECURSIVE TrimLeft(_)
TrimLeft(s) == IF s # <<>> /\ Head(s) = " " THEN TrimLeft(Tail(s)) ELSE s

RECURSIVE TrimRight(_)
TrimRight(s) ==
    IF s # <<>> /\ s[Len(s)] = " " THEN TrimRight(SubSeq(s, 1, Len(s) - 1)) ELSE s

\* strings.TrimSpace
TrimSpace(s) == TrimRight(TrimLeft(s))

IsPrefix(s, t) == Len(s) <= Len(t) /\ SubSeq(t, 1, Len(s)) = s

HexChars == {"a", "b", "A", "B"}

\* utils.IsDigest: the shape "algorithm:hex"; a short digest has the shape too
IsDigest(s) ==
    /\ Len(s) >= 2
    /\ s[1] \in {"sha256:", "SHA256:"}
    /\ \A i \in 2..Len(s) : s[i] \in HexChars

\* utils.ParseImageId(s) != nil: the identifier validation
ParseImageIdOk(s) == IsDigest(s)

-----------------------------------------------------------------------------
(* Path specs: pure mappings from identities to storage keys.  The name    *)
(* and the tag are normalised to lower case.                               *)

imageJsonPathSpec(user, name, id) == <<"manifests", user, ToLower(name), id>>

tagPathSpec(user, name, tag) == <<"tags", user, ToLower(name), ToLower(tag)>>

tagsPathSpec(name) == <<"tags", "", ToLower(name)>>

blobDigestPathSpec(digest) == <<"blobs", digest>>

uploadCheckSumPathSpec(name, id) == <<"uploads", ToLower(name), id>>

\* the zero value of manifestsPathSpec.user, which no caller sets
NoUser == ""

-----------------------------------------------------------------------------
(* Manifests                                                               *)

\* ImageManifest.Ok
Ok(imf) ==
    /\ ParseImageIdOk(imf.Id)
    /\ imf.Size # 0
    /\ IsDigest(imf.Blobsum)

\* ImageManifest.String and json.Unmarshal: the body as stored bytes
String(imf) == [json |-> imf]

Unmarshal(buf) == buf.json

NoManifest == [Id |-> <<>>, Size |-> 0, Blobsum |-> <<>>]

-----------------------------------------------------------------------------
(* The storage driver                                                      *)

Exists(st, ps) == ps \in DOMAIN st

\* driver.PutContent, when it succeeds
PutContent(st, ps, buf) ==
    [p \in DOMAIN st \cup {ps} |-> IF p = ps THEN buf ELSE st[p]]

\* driver.List on a manifest path: the stored manifests of the name whose
\* digest key starts with the (possibly short) digest
ListManifests(st, ps) ==
    {p \in DOMAIN st : /\ p[1] = "manifests"
                       /\ p[2] = ps[2]
                       /\ p[3] = ps[3]
                       /\ IsPrefix(ps[4], p[4])}

\* driver.List on the tag directory of a name
ListTagPaths(st, ps) ==
    {p \in DOMAIN st : p[1] = "tags" /\ p[2] = ps[2] /\ p[3] = ps[3]}

-----------------------------------------------------------------------------
(* Results of the catalog operations                                       *)

NoErr == "nil"

NoResult ==
    [op |-> "none", name |-> <<>>, ref |-> <<>>, imf |-> NoManifest,
     err |-> NoErr, val |-> NoManifest, tags |-> {}, listed |-> 0,
     loc |-> 0]

Returned(op, name, ref, imf, err, val) ==
    [op |-> op, name |-> name, ref |-> ref, imf |-> imf,
     err |-> err, val |-> val, tags |-> {}, listed |-> 0, loc |-> 0]

\* getImageJson: (manifest, error)
getImageJson(st, ps) ==
    IF ~Exists(st, ps)
    THEN [err |-> "PathNotFound", val |-> NoManifest]
    ELSE LET imf == Unmarshal(st[ps])
         IN IF Ok(imf)
            THEN [err |-> NoErr, val |-> imf]
            ELSE [err |-> "invalid image manifest", val |-> NoManifest]

\* ImageSearcher.GetManifest: (manifest, error).  emptyList says what the
\* driver's List answers for a key without children: an empty listing
\* (TRUE) or PathNotFoundError (FALSE).
GetManifest(st, name, ref, emptyList) ==
    LET refstr == ToLower(ref)
        mpsname == ToLower(name)
    IN IF IsDigest(refstr)
       THEN LET ps == imageJsonPathSpec(NoUser, mpsname, refstr)
                res == ListManifests(st, ps)
            IN IF res = {} /\ ~emptyList
               THEN [err |-> "Not found", val |-> NoManifest]
               ELSE IF Cardinality(res) = 1
               THEN getImageJson(st, CHOOSE p \in res : TRUE)
               ELSE IF Cardinality(res) = 0
               THEN [err |-> "internal error - no manifest found",
                     val |-> NoManifest]
               ELSE [err |-> "digest is ambiguous", val |-> NoManifest]
       ELSE LET tps == tagPathSpec(NoUser, mpsname, refstr)
            IN IF ~Exists(st, tps)
               THEN [err |-> "PathNotFound", val |-> NoManifest]
               ELSE LET idstr == ToLower(TrimSpace(st[tps]))
                    IN IF ~ParseImageIdOk(idstr)
                       THEN [err |-> "unexpected digest", val |-> NoManifest]
                       ELSE getImageJson(st,
                                imageJsonPathSpec(NoUser, mpsname, idstr))

\* ImageSearcher.ListTags: the tags under a name; a missing directory is
\* an empty list, not an error
ListTags(st, name) ==
    {p[4] : p \in ListTagPaths(st, tagsPathSpec(name))}

-----------------------------------------------------------------------------
(* Inputs of the catalog operations                                        *)

IdAA == <<"sha256:", "a", "a">>
IdAB == <<"sha256:", "a", "b">>
IdABUpper == <<"SHA256:", "A", "B">>
ShortA == <<"sha256:", "a">>
ShortB == <<"sha256:", "b">>

\* what a caller may pass as Id: two digests sharing a prefix, one of them
\* also in upper case, and a string that is no identifier
IdInputs == {IdAA, IdAB, IdABUpper, <<"t">>}

SizeInputs == {-1, 0, 1}

BlobsumInputs == {<<"sha256:", "b">>, <<"b">>}

GoodBlobsum == <<"sha256:", "b">>

\* the manifests a caller may push: every Size and Blobsum with the Id
\* IdAB, and one well-formed body for each other Id
ManifestInputs ==
    {m \in [Id : IdInputs, Size : SizeInputs, Blobsum : BlobsumInputs] :
        /\ m.Id # IdAB => (m.Size = 1 /\ m.Blobsum = GoodBlobsum)
        /\ m.Size # 1 => m.Blobsum = GoodBlobsum}

\* repository names; a caller may also pass a digest string as the name
NameInputs == {<<"N">>, IdAB}

TagInputs == {<<"t">>, <<"T">>}

RefInputs == TagInputs \cup {IdAA, IdAB, IdABUpper, ShortA, ShortB}

Callers == {1}

-----------------------------------------------------------------------------
(* PutManifest, one step per storage write                                 *)

IdleFrame ==
    [pc |-> "idle", name |-> <<>>, ref |-> <<>>, imf |-> NoManifest,
     refstr |-> <<>>, idstr |-> <<>>, isdigest |-> FALSE]

\* a variant of Mismatch: the comparison is left out
MismatchUnchecked(isdigest, refstr, idstr) == FALSE

\* searcher.go:162-166: a digest reference must be the manifest's Id
Mismatch(isdigest, refstr, idstr) == isdigest /\ refstr # idstr

\* searcher.go:169-170: where the manifest is written
ManifestTarget(f) == imageJsonPathSpec(NoUser, f.idstr, f.idstr)

\* searcher.go:177: where the tag pointer is written
TagTarget(f) == tagPathSpec(NoUser, f.idstr, f.refstr)

PutManifestReturn(p, err) ==
    /\ UNCHANGED uuids
    /\ result' = Returned("PutManifest", pm[p].name, pm[p].ref, pm[p].imf,
                          err, NoManifest)
    /\ pm' = [pm EXCEPT ![p] = IdleFrame]

\* searcher.go:158-166: the call, up to the first storage write
PutManifestBegin(p, name, ref, imf) ==
    /\ pm[p].pc = "idle"
    /\ LET refstr == ToLower(ref)
           idstr == ToLower(imf.Id)
           isdigest == ParseImageIdOk(refstr)
       IN IF Mismatch(isdigest, refstr, idstr)
          THEN /\ result' = Returned("PutManifest", name, ref, imf,
                                     "digest and content body mismatch",
                                     NoManifest)
               /\ UNCHANGED <<storage, pm, uuids>>
          ELSE /\ pm' = [pm EXCEPT ![p] =
                            [pc |-> "putManifest", name |-> name, ref |-> ref,
                             imf |-> imf, refstr |-> refstr, idstr |-> idstr,
                             isdigest |-> isdigest]]
               /\ result' = NoResult
               /\ UNCHANGED <<storage, uuids>>

\* a variant of PutManifestWrite: the error of the manifest write is dropped
\* and the call goes on to the tag
PutManifestWriteErrorDropped(p, ok) ==
    /\ pm[p].pc = "putManifest"
    /\ storage' = IF ok
                  THEN PutContent(storage, ManifestTarget(pm[p]),
                                  String(pm[p].imf))
                  ELSE storage
    /\ IF pm[p].isdigest
       THEN PutManifestReturn(p, NoErr)
       ELSE /\ pm' = [pm EXCEPT ![p].pc = "putTag"]
            /\ UNCHANGED <<result, uuids>>

\* searcher.go:172-176: the manifest write; ok is the driver's answer
PutManifestWrite(p, ok) ==
    /\ pm[p].pc = "putManifest"
    /\ IF ~ok
       THEN /\ PutManifestReturn(p, "failed to update manifest")
            /\ UNCHANGED storage
       ELSE /\ storage' = PutContent(storage, ManifestTarget(pm[p]),
                                     String(pm[p].imf))
            /\ IF pm[p].isdigest
               THEN PutManifestReturn(p, NoErr)
               ELSE /\ pm' = [pm EXCEPT ![p].pc = "putTag"]
                    /\ UNCHANGED <<result, uuids>>

\* searcher.go:176-183: the tag write; ok is the driver's answer
PutManifestTag(p, ok) ==
    /\ pm[p].pc = "putTag"
    /\ IF ~ok
       THEN /\ PutManifestReturn(p, "failed to update tag")
            /\ UNCHANGED storage
       ELSE /\ storage' = PutContent(storage, TagTarget(pm[p]), pm[p].idstr)
            /\ PutManifestReturn(p, NoErr)

\* the process stops inside PutManifest; nothing written is taken back
Crash(p) ==
    /\ pm[p].pc # "idle"
    /\ pm' = [pm EXCEPT ![p] = IdleFrame]
    /\ result' = [NoResult EXCEPT !.op = "crash"]
    /\ UNCHANGED <<storage, uuids>>

-----------------------------------------------------------------------------
(* The read operations, by a caller that is not inside PutManifest         *)

DoGetManifest(p, name, ref, emptyList) ==
    /\ pm[p].pc = "idle"
    /\ LET r == GetManifest(storage, name, ref, emptyList)
           refstr == ToLower(ref)
       IN result' = [Returned("GetManifest", name, ref, NoManifest,
                              r.err, r.val)
                     EXCEPT !.listed =
                        IF IsDigest(refstr)
                        THEN Cardinality(ListManifests(storage,
                                 imageJsonPathSpec(NoUser, name, refstr)))
                        ELSE 0]
    /\ UNCHANGED <<storage, pm, uuids>>

DoListTags(p, name) ==
    /\ pm[p].pc = "idle"
    /\ result' = [Returned("ListTags", name, <<>>, NoManifest, NoErr,
                           NoManifest)
                  EXCEPT !.tags = ListTags(storage, name)]
    /\ UNCHANGED <<storage, pm, uuids>>

-----------------------------------------------------------------------------
(* The frames of the client, at rest                                       *)

\* the zero v1.ImageManifest
NoImage == [Id |-> "", Name |-> "", Parent |-> "", Blobsum |-> <<>>, Size |-> 0]

IdlePull ==
    [pc |-> "idle", name |-> "", imf |-> NoImage, res |-> <<>>,
     cursor |-> NoImage, failed |-> FALSE]

\* no transfer yet for the chunk doPull is at
NoFetch == [kind |-> "none", body |-> <<>>]

\* got is how downloadChunk got the chunk doPull is at: "skip" when the
\* scratch file was already right, or the transfer it made
IdleDoPull ==
    [pc |-> "idle", imf |-> NoImage, chunks |-> <<>>, i |-> 0,
     got |-> NoFetch]

NoClientResult ==
    [op |-> "none", name |-> "", ref |-> "", imf |-> NoImage, err |-> NoErr,
     failed |-> FALSE, chain |-> <<>>]

ServerInit ==
    /\ storage = <<>>
    /\ pm = [p \in Callers |-> IdleFrame]
    /\ result = NoResult
    /\ uuids = 0

ClientAtRest ==
    /\ lfs = <<>>
    /\ pull = IdlePull
    /\ dp = IdleDoPull
    /\ cresult = NoClientResult
    /\ calls = 0

\* uploadFile before it is called
IdleUpload ==
    [pc |-> "idle", file |-> <<>>, size |-> 0, C |-> 1, offset |-> 0,
     index |-> 0, buffer |-> <<>>, subhash |-> <<>>, writer |-> <<>>,
     chunks |-> <<>>, completes |-> 0, failedAt |-> "", err |-> NoErr]

RestAtRest ==
    /\ up = IdleUpload
    /\ done = <<>>

-----------------------------------------------------------------------------
(* The catalog                                                             *)

Init == ServerInit /\ ClientAtRest /\ RestAtRest

Next ==
    \/ \E p \in Callers, name \in NameInputs, ref \in RefInputs,
          imf \in ManifestInputs :
            PutManifestBegin(p, name, ref, imf) /\ UNCHANGED outsideCatalog
    \/ \E p \in Callers, ok \in BOOLEAN :
            PutManifestWrite(p, ok) /\ UNCHANGED outsideCatalog
    \/ \E p \in Callers, ok \in BOOLEAN :
            PutManifestTag(p, ok) /\ UNCHANGED outsideCatalog
    \/ \E p \in Callers : Crash(p) /\ UNCHANGED outsideCatalog
    \/ \E p \in Callers, name \in NameInputs, ref \in RefInputs,
          emptyList \in BOOLEAN :
            DoGetManifest(p, name, ref, emptyList) /\ UNCHANGED outsideCatalog
    \/ \E p \in Callers, name \in NameInputs :
            DoListTags(p, name) /\ UNCHANGED outsideCatalog

Spec == Init /\ [][Next]_vars

-----------------------------------------------------------------------------
(* Claims about the catalog                                                *)

ManifestInvariant(imf) ==
    /\ ParseImageIdOk(imf.Id)
    /\ imf.Size > 0
    /\ IsDigest(imf.Blobsum)

IsTagPath(p) == p[1] = "tags"

IsManifestPath(p) == p[1] = "manifests"

TagPointers(st) == [p \in {q \in DOMAIN st : IsTagPath(q)} |-> st[p]]

ReturnedOk(op) == result.op = op /\ result.err = NoErr

\* C1: after PutManifest(name, tag, manifest) returned success (taken here
\* for the well-formed manifests alone), ListTags(name) includes the tag, and
\* GetManifest(name, tag) and GetManifest(name, manifest.Id) each return a
\* manifest with manifest's Id.
C1_PutThenGet ==
    (/\ ReturnedOk("PutManifest")
     /\ ~IsDigest(ToLower(result.ref))
     /\ ManifestInvariant(result.imf)) =>
        /\ ToLower(result.ref) \in ListTags(storage, result.name)
        /\ \A emptyList \in BOOLEAN :
            /\ GetManifest(storage, result.name, result.ref, emptyList).err
                   = NoErr
            /\ GetManifest(storage, result.name, result.ref, emptyList).val.Id
                   = result.imf.Id
            /\ GetManifest(storage, result.name, result.imf.Id, emptyList).err
                   = NoErr
            /\ GetManifest(storage, result.name, result.imf.Id,
                           emptyList).val.Id = result.imf.Id

\* C2: GetManifest with a digest-shaped reference: a listing of exactly one
\* manifest returns that manifest, a listing of none (empty, or path not
\* found) is the NotFound error, a listing of two or more is the Ambiguous
\* error with no manifest.
C2_DigestLookup ==
    (result.op = "GetManifest" /\ IsDigest(ToLower(result.ref))) =>
        /\ result.listed = 1 =>
              /\ result.err = NoErr
              /\ String(result.val) \in
                    {storage[p] : p \in ListManifests(storage,
                        imageJsonPathSpec(NoUser, result.name,
                                          ToLower(result.ref)))}
        /\ result.listed = 0 =>
              (result.err = "Not found" /\ result.val = NoManifest)
        /\ result.listed >= 2 =>
              (result.err = "digest is ambiguous" /\ result.val = NoManifest)

\* C6: PutManifest under a digest-shaped ref that differs from manifest.Id
\* (letter case aside) returns the mismatch error and reaches no storage
\* write; under a digest-shaped ref equal to manifest.Id up to letter case
\* it stores the manifest and never reaches the tag write.
C6_NoWritePending ==
    \A p \in Callers :
        (pm[p].pc # "idle" /\ IsDigest(ToLower(pm[p].ref))) =>
            /\ ToLower(pm[p].ref) = ToLower(pm[p].imf.Id)
            /\ pm[p].pc # "putTag"

C6_Returned ==
    (result.op = "PutManifest" /\ IsDigest(ToLower(result.ref))) =>
        /\ ~Exists(storage, tagPathSpec(NoUser, ToLower(result.imf.Id),
                                        ToLower(result.ref)))
        /\ IF ToLower(result.ref) # ToLower(result.imf.Id)
           THEN result.err = "digest and content body mismatch"
           ELSE /\ result.err \in {NoErr, "failed to update manifest"}
                /\ result.err = NoErr =>
                      /\ Exists(storage, imageJsonPathSpec(NoUser,
                            ToLower(result.imf.Id), ToLower(result.imf.Id)))
                      /\ storage[imageJsonPathSpec(NoUser,
                            ToLower(result.imf.Id), ToLower(result.imf.Id))]
                            = String(result.imf)

C6_MismatchWritesNothing ==
    (result'.op = "PutManifest"
        /\ result'.err = "digest and content body mismatch") =>
            storage' = storage

C6_DigestRef ==
    /\ []C6_NoWritePending
    /\ []C6_Returned
    /\ [][C6_MismatchWritesNothing]_vars

C6_Witness ==
    /\ ReturnedOk("PutManifest")
    /\ result.ref = IdABUpper
    /\ result.imf.Id = IdAB
    /\ Exists(storage, imageJsonPathSpec(NoUser, IdAB, IdAB))

\* C7: the tag pointer is written only after the manifest write succeeded:
\* every tag pointer in storage names a digest whose manifest is persisted;
\* between the two writes the new manifest is stored and the tag pointers
\* are as before the call; a failed manifest write changes no tag pointer.
C7_TagsNamePersisted ==
    \A p \in DOMAIN storage :
        IsTagPath(p) =>
            Exists(storage, imageJsonPathSpec(NoUser, p[3],
                                ToLower(TrimSpace(storage[p]))))

C7_BetweenWrites ==
    \A p \in Callers :
        pm[p].pc = "putTag" =>
            /\ Exists(storage, ManifestTarget(pm[p]))
            /\ ToLower(Unmarshal(storage[ManifestTarget(pm[p])]).Id)
                   = pm[p].idstr

C7_TagChangesOnlyAfterManifest ==
    TagPointers(storage') # TagPointers(storage) =>
        \E p \in Callers :
            /\ pm[p].pc = "putTag"
            /\ Exists(storage, ManifestTarget(pm[p]))
            /\ TagPointers(storage') =
                  TagPointers(PutContent(storage, TagTarget(pm[p]),
                                         pm[p].idstr))

C7_ManifestBeforeTag ==
    /\ []C7_TagsNamePersisted
    /\ []C7_BetweenWrites
    /\ [][C7_TagChangesOnlyAfterManifest]_vars

C7_Witness ==
    \E p \in Callers :
        /\ pm[p].pc = "putTag"
        /\ Exists(storage, ManifestTarget(pm[p]))
        /\ storage[ManifestTarget(pm[p])] = String(pm[p].imf)
        /\ ~Exists(storage, TagTarget(pm[p]))

\* C8: every manifest GetManifest returns satisfies the manifest invariant:
\* Id passes identifier validation, Size > 0, Blobsum is a well-formed digest.
C8_ReturnedManifestValid ==
    ReturnedOk("GetManifest") => ManifestInvariant(result.val)

\* C9: PutManifest persists only manifests that satisfy the manifest
\* invariant, and the content stored for an Id never changes afterwards.
C9_StoredValid ==
    \A p \in DOMAIN storage :
        IsManifestPath(p) => ManifestInvariant(Unmarshal(storage[p]))

C9_Immutable ==
    \A p \in DOMAIN storage :
        IsManifestPath(p) => (p \in DOMAIN storage' /\ storage'[p] = storage[p])

C9_ValidatedImmutable == []C9_StoredValid /\ [][C9_Immutable]_vars

-----------------------------------------------------------------------------
(* Lookups in a catalog whose storage was not written by PutManifest      *)
(* alone: the driver's content is an input of GetManifest.                *)

\* a well-formed body and one that ImageManifest.Ok rejects
StoredBody(id, size) ==
    String([Id |-> id, Size |-> size, Blobsum |-> GoodBlobsum])

\* the identifier IdAB as a tag file with white space around it holds it
PaddedTag == <<" ", "sha256:", "a", "b", " ">>

\* what the key of the tag "t" of the name "N" may hold
StoredTagInputs == {IdAB, IdABUpper, PaddedTag, <<"t">>}

\* the storage contents a lookup may meet: the tag pointer of N:t, absent
\* or present, and the manifests of N with the Ids IdAB and IdAA, absent or
\* present
LookupStores ==
    LET tps == tagPathSpec(NoUser, <<"N">>, <<"t">>)
        ab == imageJsonPathSpec(NoUser, <<"N">>, IdAB)
        aa == imageJsonPathSpec(NoUser, <<"N">>, IdAA)
        WithTag == {<<>>} \cup {PutContent(<<>>, tps, c) : c \in StoredTagInputs}
        WithAB(S) == S \cup {PutContent(st, ab, StoredBody(IdAB, sz)) :
                                st \in S, sz \in {0, 1}}
        WithAA(S) == S \cup {PutContent(st, aa, StoredBody(IdAA, 1)) : st \in S}
    IN WithAA(WithAB(WithTag))

LookupInit ==
    /\ storage \in LookupStores
    /\ pm = [p \in Callers |-> IdleFrame]
    /\ result = NoResult
    /\ uuids = 0
    /\ ClientAtRest
    /\ RestAtRest

LookupNext ==
    \/ \E p \in Callers, name \in NameInputs, ref \in RefInputs,
          emptyList \in BOOLEAN :
            DoGetManifest(p, name, ref, emptyList) /\ UNCHANGED outsideCatalog
    \/ \E p \in Callers, name \in NameInputs :
            DoListTags(p, name) /\ UNCHANGED outsideCatalog

SpecLookup == LookupInit /\ [][LookupNext]_vars

\* the storage without one key
RemoveKey(st, ps) == [p \in DOMAIN st \ {ps} |-> st[p]]

\* the tag of the last GetManifest exists and holds a valid identifier, and
\* no manifest is stored at that digest
DanglingTag ==
    LET refstr == ToLower(result.ref)
        tps == tagPathSpec(NoUser, ToLower(result.name), refstr)
    IN /\ result.op = "GetManifest"
       /\ ~IsDigest(refstr)
       /\ Exists(storage, tps)
       /\ ParseImageIdOk(ToLower(TrimSpace(storage[tps])))
       /\ ~Exists(storage, imageJsonPathSpec(NoUser, ToLower(result.name),
                              ToLower(TrimSpace(storage[tps]))))

\* what the same lookup answers when the tag itself does not exist
MissingTagErr ==
    LET tps == tagPathSpec(NoUser, ToLower(result.name), ToLower(result.ref))
    IN GetManifest(RemoveKey(storage, tps), result.name, result.ref, TRUE).err

\* C11: GetManifest(name, tag) on a tag pointer that holds a valid
\* identifier with no manifest stored at that digest returns an error, and
\* the error is not the one returned when the tag does not exist.
C11_DanglingTagDistinct ==
    DanglingTag => (result.err # NoErr /\ result.err # MissingTagErr)

-----------------------------------------------------------------------------
(* Upload sessions                                                         *)

MaxUploads == 3

PaddedA == <<" ", "sha256:", "a", " ">>

\* UploadInfo.Digest as a caller may send it
DigestInputs == {ShortA, ShortB, PaddedA}

UploadNames == {<<"n">>, <<"N">>}

\* uploadUuidPathSpec.urlSpec: the location of the session
uploadUuidUrlSpec(name, id) == id

\* a variant of PrepareBlobUpload: the blob path is not looked at
PrepareBlobUploadNoStat(name, info, ok) ==
    LET digest == TrimSpace(info.Digest)
        uu == uuids + 1
    IN /\ uuids < MaxUploads
       /\ uuids' = uu
       /\ storage' = IF ok
                     THEN PutContent(storage,
                              uploadCheckSumPathSpec(name, uu), digest)
                     ELSE storage
       /\ result' = [Returned("PrepareBlobUpload", name, info.Digest,
                              NoManifest,
                              IF ok THEN NoErr ELSE "driver error", NoManifest)
                     EXCEPT !.loc = IF ok THEN uploadUuidUrlSpec(name, uu)
                                    ELSE 0]
       /\ UNCHANGED pm

\* ImageSearcher.PrepareBlobUpload; ok is the driver's answer to PutContent
PrepareBlobUpload(name, info, ok) ==
    LET digest == TrimSpace(info.Digest)
        bps == blobDigestPathSpec(digest)
    IN IF Exists(storage, bps)
       THEN /\ result' = Returned("PrepareBlobUpload", name, info.Digest,
                                  NoManifest, "Conflict", NoManifest)
            /\ UNCHANGED <<storage, pm, uuids>>
       ELSE /\ uuids < MaxUploads
            /\ uuids' = uuids + 1
            /\ LET uu == uuids + 1
                   ucps == uploadCheckSumPathSpec(name, uu)
               IN IF ~ok
                  THEN /\ result' = Returned("PrepareBlobUpload", name,
                                 info.Digest, NoManifest, "driver error",
                                 NoManifest)
                       /\ UNCHANGED <<storage, pm>>
                  ELSE /\ storage' = PutContent(storage, ucps, digest)
                       /\ result' = [Returned("PrepareBlobUpload", name,
                                         info.Digest, NoManifest, NoErr,
                                         NoManifest)
                                     EXCEPT !.loc = uploadUuidUrlSpec(name, uu)]
                       /\ UNCHANGED pm

\* IStorageFE.CompleteUpload: the assembled content of a prepared session
\* has the digest recorded for it, and the blob becomes visible at its
\* canonical path
CompleteUpload(name, id) ==
    LET ucps == uploadCheckSumPathSpec(name, id)
    IN /\ Exists(storage, ucps)
       /\ storage' = PutContent(storage, blobDigestPathSpec(storage[ucps]),
                                <<"blob">>)
       /\ result' = Returned("CompleteUpload", name, <<>>, NoManifest, NoErr,
                             NoManifest)
       /\ UNCHANGED <<pm, uuids>>

UploadNext ==
    \/ \E name \in UploadNames, d \in DigestInputs, ok \in BOOLEAN :
          PrepareBlobUpload(name, [Digest |-> d], ok) /\ UNCHANGED outsideCatalog
    \/ \E name \in UploadNames, id \in 1..MaxUploads :
          CompleteUpload(name, id) /\ UNCHANGED outsideCatalog

SpecUpload == Init /\ [][UploadNext]_vars

IsUploadPath(p) == p[1] = "uploads"

\* C5: PrepareBlobUpload(name, d) in a state where a blob exists at the
\* canonical path of d returns Conflict, generates no session id and writes
\* no upload-checksum record: storage is unchanged.
C5_ConflictStep ==
    (/\ result'.op = "PrepareBlobUpload"
     /\ Exists(storage, blobDigestPathSpec(TrimSpace(result'.ref)))) =>
        /\ result'.err = "Conflict"
        /\ result'.loc = 0
        /\ uuids' = uuids
        /\ storage' = storage

C5_ConflictCreatesNoSession == [][C5_ConflictStep]_vars

C5_Witness ==
    /\ result.op = "PrepareBlobUpload"
    /\ result.err = "Conflict"
    /\ result.ref = PaddedA
    /\ Exists(storage, blobDigestPathSpec(ShortA))
    /\ \E p \in DOMAIN storage : IsUploadPath(p)

-----------------------------------------------------------------------------
(* The pull client: what the server holds                                  *)

\* the bytes of the chunks
ChunkX == <<1, 2>>
ChunkY == <<3>>

\* utils.GetChunkDigest: the digest of a chunk's bytes (collision-free)
GetChunkDigest(bytes) == <<"chunk", bytes>>

\* the digest that names a whole blob; it is taken to differ from every
\* chunk digest
BlobDigest(bytes) == <<"blobsum", bytes>>

RECURSIVE Concat(_)
Concat(ss) == IF ss = <<>> THEN <<>> ELSE Head(ss) \o Concat(Tail(ss))

\* the chunk lists of the images on the server
RemoteChunks(id) ==
    CASE id = "A" -> <<ChunkX, ChunkY>>
      [] id = "B" -> <<ChunkY>>
      [] id = "C" -> <<ChunkX, ChunkX>>
      [] id = "D" -> <<ChunkX>>
      [] id = "E" -> <<ChunkY, ChunkY>>

\* Parent of the manifests on the server: the chain A <- B <- C, and two
\* manifests that name each other, which nothing on the way forbids
RemoteParent(id) ==
    CASE id = "A" -> ""
      [] id = "B" -> "A"
      [] id = "C" -> "B"
      [] id = "D" -> "E"
      [] id = "E" -> "D"

RemoteIds == {"A", "B", "C", "D", "E"}

RepoName == "repo"

\* the manifests on the server
RemoteManifest(id) ==
    [Id |-> id, Name |-> RepoName, Parent |-> RemoteParent(id),
     Blobsum |-> BlobDigest(Concat(RemoteChunks(id))), Size |-> 1]

\* v1.BlobManifest.Chunks of a blob on the server
RemoteBlobManifest(blobsum) ==
    LET id == CHOOSE x \in RemoteIds : RemoteManifest(x).Blobsum = blobsum
    IN [j \in 1..Len(RemoteChunks(id)) |-> GetChunkDigest(RemoteChunks(id)[j])]

\* what a transfer of a chunk may deliver: its bytes, other bytes, or its
\* bytes with more after them
TransferBodies(bytes) == {bytes, <<9>>, bytes \o <<9>>}

-----------------------------------------------------------------------------
(* The pull client: local files                                            *)

GetImageManifestPath(name, id) == <<"manifest", name, id>>

GetImageFilePath(name, id) == <<"file", name, id>>

GetImageBlobPath(name, blobsum) == <<"blob", name, blobsum>>

GetBlobDownloadDir(name, tophash) == <<"dl", name, tophash>>

\* path.Join(dldir, file)
Join(dldir, file) == Append(dldir, file)

Stat(fs, path) == path \in DOMAIN fs

WriteFile(fs, path, content) ==
    [q \in DOMAIN fs \cup {path} |-> IF q = path THEN content ELSE fs[q]]

RemoveAll(fs, paths) == [q \in DOMAIN fs \ paths |-> fs[q]]

\* writing from offset 0 into a file opened with O_CREATE|O_WRONLY, which
\* does not truncate: what the old content had beyond the new stays
WriteNoTrunc(old, new) == new \o SubSeq(old, Len(new) + 1, Len(old))

ContentOrEmpty(fs, path) == IF Stat(fs, path) THEN fs[path] ELSE <<>>

\* checkChunkDigest(blobpath, digest) == nil
checkChunkDigest(fs, blobpath, digest) ==
    /\ Stat(fs, blobpath)
    /\ GetChunkDigest(fs[blobpath]) = digest

\* an image as a completed pull leaves it: blob, image file and manifest
ImageFiles(id) ==
    LET imf == RemoteManifest(id)
        bytes == Concat(RemoteChunks(id))
    IN {<<GetImageBlobPath(imf.Name, imf.Blobsum), bytes>>,
        <<GetImageFilePath(imf.Name, imf.Id), bytes>>,
        <<GetImageManifestPath(imf.Name, imf.Id), [json |-> imf]>>}

LocalStore(ids) ==
    LET files == UNION {ImageFiles(id) : id \in ids}
    IN [q \in {f[1] : f \in files} |->
            (CHOOSE f \in files : f[1] = q)[2]]

-----------------------------------------------------------------------------
(* The pull client: fetching manifests                                     *)

\* v1.ImageManifest.Ok
ImageOk(imf) == imf.Id # "" /\ imf.Size # 0 /\ imf.Blobsum # <<>>

\* how many calls of Pull or doPull a behaviour makes
MaxCalls == 2

\* how long a chain buildChain is followed while it grows
MaxChain == 4

\* references a caller may pull; "Z" names nothing on the server
ReferenceInputs == RemoteIds \cup {"Z"}

\* what a request may end as: a 200 answer or any failure
Outcomes == {"ok", "fail"}

\* ZImageClient.getImageManifest: (manifest, error)
getImageManifest(name, reference, outcome) ==
    IF outcome # "ok" \/ name # RepoName \/ reference \notin RemoteIds
    THEN [err |-> "failed in getting image manifest", imf |-> NoImage]
    ELSE IF ~ImageOk(RemoteManifest(reference))
    THEN [err |-> "invalid image manifest", imf |-> NoImage]
    ELSE [err |-> NoErr, imf |-> RemoteManifest(reference)]

-----------------------------------------------------------------------------
(* Pull and buildChain                                                     *)

PullReturn(err) ==
    /\ cresult' = [op |-> "Pull", name |-> pull.name, ref |-> pull.imf.Id,
                   imf |-> pull.imf, err |-> err, failed |-> pull.failed,
                   chain |-> pull.res]
    /\ pull' = IdlePull

\* a variant of PullStart: the image file is not looked for
PullStartNoStat(name, reference, outcome) ==
    /\ pull.pc = "idle"
    /\ dp.pc = "idle"
    /\ calls < MaxCalls
    /\ calls' = calls + 1
    /\ LET got == getImageManifest(name, reference, outcome)
       IN IF got.err # NoErr
          THEN /\ cresult' = [NoClientResult EXCEPT
                                !.op = "Pull", !.name = name,
                                !.ref = reference, !.err = got.err,
                                !.failed = TRUE]
               /\ UNCHANGED pull
          ELSE /\ pull' = [pc |-> "buildChain", name |-> name,
                           imf |-> got.imf, res |-> <<got.imf>>,
                           cursor |-> got.imf, failed |-> FALSE]
               /\ cresult' = NoClientResult
    /\ UNCHANGED <<lfs, dp>>

\* part_000:41-48 and 17: the leaf manifest, the fail-fast check and the
\* first element of the chain
PullStart(name, reference, outcome) ==
    /\ pull.pc = "idle"
    /\ dp.pc = "idle"
    /\ calls < MaxCalls
    /\ calls' = calls + 1
    /\ LET got == getImageManifest(name, reference, outcome)
       IN IF got.err # NoErr
          THEN /\ cresult' = [NoClientResult EXCEPT
                                !.op = "Pull", !.name = name,
                                !.ref = reference, !.err = got.err,
                                !.failed = TRUE]
               /\ UNCHANGED pull
          ELSE IF Stat(lfs, GetImageFilePath(name, got.imf.Id))
          THEN /\ cresult' = [NoClientResult EXCEPT
                                !.op = "Pull", !.name = name,
                                !.ref = reference, !.imf = got.imf,
                                !.err = "already exists"]
               /\ UNCHANGED pull
          ELSE /\ pull' = [pc |-> "buildChain", name |-> name,
                           imf |-> got.imf, res |-> <<got.imf>>,
                           cursor |-> got.imf, failed |-> FALSE]
               /\ cresult' = NoClientResult
    /\ UNCHANGED <<lfs, dp>>

\* a variant of BuildChainStep: the cursor stays where it is
BuildChainStepCursorKept(outcome) ==
    /\ pull.pc = "buildChain"
    /\ IF pull.cursor.Parent = ""
       THEN /\ pull' = [pull EXCEPT !.pc = "reverse"]
            /\ UNCHANGED cresult
       ELSE LET got == getImageManifest(pull.cursor.Name, pull.cursor.Parent,
                                        outcome)
            IN IF got.err # NoErr
               THEN /\ cresult' = [op |-> "Pull", name |-> pull.name,
                                   ref |-> pull.imf.Id, imf |-> pull.imf,
                                   err |-> NoErr, failed |-> TRUE,
                                   chain |-> <<>>]
                    /\ pull' = IdlePull
               ELSE IF ~Stat(lfs, GetImageManifestPath(pull.cursor.Name,
                                                       got.imf.Id))
               THEN /\ Len(pull.res) < MaxChain
                    /\ pull' = [pull EXCEPT !.res = Append(@, got.imf)]
                    /\ UNCHANGED cresult
               ELSE /\ pull' = [pull EXCEPT !.pc = "reverse"]
                    /\ UNCHANGED cresult
    /\ UNCHANGED <<lfs, dp, calls>>

\* part_000:19-34, one turn of the loop of buildChain; part_000:51-54 when
\* buildChain returns an error
BuildChainStep(outcome) ==
    /\ pull.pc = "buildChain"
    /\ IF pull.cursor.Parent = ""
       THEN /\ pull' = [pull EXCEPT !.pc = "reverse"]
            /\ UNCHANGED cresult
       ELSE LET got == getImageManifest(pull.cursor.Name, pull.cursor.Parent,
                                        outcome)
            IN IF got.err # NoErr
               THEN /\ cresult' = [op |-> "Pull", name |-> pull.name,
                                   ref |-> pull.imf.Id, imf |-> pull.imf,
                                   err |-> NoErr, failed |-> TRUE,
                                   chain |-> <<>>]
                    /\ pull' = IdlePull
               ELSE IF ~Stat(lfs, GetImageManifestPath(pull.cursor.Name,
                                                       got.imf.Id))
               THEN /\ Len(pull.res) < MaxChain
                    /\ pull' = [pull EXCEPT !.res = Append(@, got.imf),
                                            !.cursor = got.imf]
                    /\ UNCHANGED cresult
               ELSE /\ pull' = [pull EXCEPT !.pc = "reverse"]
                    /\ UNCHANGED cresult
    /\ UNCHANGED <<lfs, dp, calls>>

\* imfs[i], imfs[j] = imfs[j], imfs[i], with Go's indices from 0
Swap(imfs, i, j) ==
    [k \in 1..Len(imfs) |->
        IF k = i + 1 THEN imfs[j + 1]
        ELSE IF k = j + 1 THEN imfs[i + 1] ELSE imfs[k]]

\* a variant of ReverseLoop: the chain is left in the order buildChain
\* gave it, the leaf first
ReverseLoopLeafFirst(imfs, i, j) == [panic |-> FALSE, imfs |-> imfs]

\* part_000:56-58: for i, j := 0, len(imfs); i < j; i, j = i+1, j-1.
\* An index outside 0..len-1 is a run-time panic.
RECURSIVE ReverseLoop(_, _, _)
ReverseLoop(imfs, i, j) ==
    IF i < j
    THEN IF i >= Len(imfs) \/ j >= Len(imfs)
         THEN [panic |-> TRUE, imfs |-> imfs]
         ELSE ReverseLoop(Swap(imfs, i, j), i + 1, j - 1)
    ELSE [panic |-> FALSE, imfs |-> imfs]

\* part_000:56-58
PullReverse ==
    /\ pull.pc = "reverse"
    /\ LET r == ReverseLoop(pull.res, 0, Len(pull.res))
       IN IF r.panic
          THEN PullReturn("panic")
          ELSE /\ pull' = [pull EXCEPT !.pc = "loop", !.res = r.imfs]
               /\ UNCHANGED cresult
    /\ UNCHANGED <<lfs, dp, calls>>

-----------------------------------------------------------------------------
(* doPull                                                                  *)

\* doPull returns err: to the loop of Pull (part_000:60-66), or to whoever
\* called doPull on its own
DoPullReturn(err) ==
    /\ dp' = IdleDoPull
    /\ IF pull.pc = "loop"
       THEN IF err # NoErr
            THEN PullReturn(err)
            ELSE IF Len(pull.res) = 1
            THEN PullReturn(NoErr)
            ELSE /\ pull' = [pull EXCEPT !.res = Tail(@)]
                 /\ UNCHANGED cresult
       ELSE /\ cresult' = [NoClientResult EXCEPT
                             !.op = "doPull", !.imf = dp.imf, !.err = err]
            /\ UNCHANGED pull

\* doPull(imf) is entered: by the loop of Pull with the next manifest of the
\* reversed chain, or on its own with a manifest of the server
DoPullCall(imf) ==
    /\ dp.pc = "idle"
    /\ IF pull.pc = "loop"
       THEN imf = Head(pull.res) /\ UNCHANGED calls
       ELSE pull.pc = "idle" /\ calls < MaxCalls /\ calls' = calls + 1
    /\ dp' = [IdleDoPull EXCEPT !.pc = "getBlobManifest", !.imf = imf]
    /\ cresult' = NoClientResult
    /\ UNCHANGED <<lfs, pull>>

\* part_000:70-73 and 185-207
GetBlobManifest(outcome) ==
    /\ dp.pc = "getBlobManifest"
    /\ IF outcome # "ok"
       THEN DoPullReturn("failed in getting blob manifest")
       ELSE /\ dp' = [dp EXCEPT
                        !.chunks = RemoteBlobManifest(dp.imf.Blobsum),
                        !.i = 1, !.pc = "download"]
            /\ UNCHANGED <<pull, cresult>>
    /\ UNCHANGED <<lfs, calls>>

DlDir == GetBlobDownloadDir(dp.imf.Name, dp.imf.Blobsum)

ImgFile == Join(DlDir, dp.imf.Blobsum)

ChunkFile(j) == Join(DlDir, dp.chunks[j])

\* the bytes the server holds for a chunk digest
ChunkBytes(subhash) == subhash[2]

\* how the transfer of chunk dp.i may end
Fetches ==
    IF dp.pc = "download"
    THEN LET bytes == ChunkBytes(dp.chunks[dp.i])
         IN {[kind |-> "neterr", body |-> <<>>],
             [kind |-> "status", body |-> <<>>],
             [kind |-> "copyerr", body |-> SubSeq(bytes, 1, Len(bytes) - 1)]}
            \cup {[kind |-> "body", body |-> b] : b \in TransferBodies(bytes)}
    ELSE {}

\* ZImageClient.downloadChunk for chunk dp.i (part_000:106-131).  fetch is
\* how the transfer ends: "neterr" (cln.Get returns an error and no
\* response, and resp.StatusCode panics), "status" (a status other than
\* 200), "copyerr" (io.Copy fails after a part of the body) or "body" (the
\* body is copied whole).
DownloadChunk(fetch) ==
    /\ dp.pc = "download"
    /\ UNCHANGED calls
    /\ LET subhash == dp.chunks[dp.i]
           dlfile == ChunkFile(dp.i)
           opened == WriteFile(lfs, dlfile, ContentOrEmpty(lfs, dlfile))
       IN IF checkChunkDigest(lfs, dlfile, subhash)
          THEN /\ dp' = [dp EXCEPT !.pc = "check",
                                    !.got = [kind |-> "skip", body |-> <<>>]]
               /\ UNCHANGED <<lfs, pull, cresult>>
          ELSE IF fetch.kind = "neterr"
          THEN /\ lfs' = opened
               /\ DoPullReturn("panic")
          ELSE IF fetch.kind = "status"
          THEN /\ lfs' = opened
               /\ DoPullReturn("failed to download chunk")
          ELSE IF fetch.kind = "copyerr"
          THEN /\ lfs' = WriteFile(lfs, dlfile,
                            WriteNoTrunc(ContentOrEmpty(lfs, dlfile),
                                         fetch.body))
               /\ DoPullReturn("failed to download chunk")
          ELSE /\ lfs' = WriteFile(lfs, dlfile,
                            WriteNoTrunc(ContentOrEmpty(lfs, dlfile),
                                         fetch.body))
               /\ dp' = [dp EXCEPT !.pc = "check", !.got = fetch]
               /\ UNCHANGED <<pull, cresult>>

\* a variant of CheckChunk: the chunk is not hashed again
CheckChunkUnverified ==
    /\ dp.pc = "check"
    /\ dp' = [dp EXCEPT
                 !.i = @ + 1,
                 !.got = NoFetch,
                 !.pc = IF dp.i < Len(dp.chunks) THEN "download" ELSE "combine"]
    /\ UNCHANGED <<pull, cresult, lfs, calls>>

\* part_000:150-154: the chunk is hashed again after downloadChunk
CheckChunk ==
    /\ dp.pc = "check"
    /\ IF ~checkChunkDigest(lfs, ChunkFile(dp.i), dp.chunks[dp.i])
       THEN DoPullReturn("chunk corrupted")
       ELSE /\ dp' = [dp EXCEPT
                        !.i = @ + 1,
                        !.got = NoFetch,
                        !.pc = IF dp.i < Len(dp.chunks)
                               THEN "download" ELSE "combine"]
            /\ UNCHANGED <<pull, cresult>>
    /\ UNCHANGED <<lfs, calls>>

\* part_000:156-183: the chunks are copied in order into the reconstructed
\* file, then removed; ok is whether the file could be opened
CombineChunks(ok) ==
    /\ dp.pc = "combine"
    /\ UNCHANGED calls
    /\ IF ~ok
       THEN /\ DoPullReturn("failed to create blob file")
            /\ UNCHANGED lfs
       ELSE LET bytes == Concat([j \in 1..Len(dp.chunks) |->
                                    lfs[ChunkFile(j)]])
                written == WriteFile(lfs, ImgFile,
                              WriteNoTrunc(ContentOrEmpty(lfs, ImgFile), bytes))
            IN /\ lfs' = RemoveAll(written,
                            {ChunkFile(j) : j \in 1..Len(dp.chunks)})
               /\ dp' = [dp EXCEPT !.pc = "rename"]
               /\ UNCHANGED <<pull, cresult>>

\* part_000:81-85: os.Rename(imgfile, blobpath)
RenameBlob(ok) ==
    /\ dp.pc = "rename"
    /\ UNCHANGED calls
    /\ IF ~ok
       THEN /\ DoPullReturn("failed to commit image blob")
            /\ UNCHANGED lfs
       ELSE /\ lfs' = RemoveAll(
                        WriteFile(lfs, GetImageBlobPath(dp.imf.Name,
                                           dp.imf.Blobsum), lfs[ImgFile]),
                        {ImgFile})
            /\ dp' = [dp EXCEPT !.pc = "link"]
            /\ UNCHANGED <<pull, cresult>>

\* part_000:91-96: os.Link(blobpath, dest), which fails if dest exists
LinkImageFile(ok) ==
    /\ dp.pc = "link"
    /\ UNCHANGED calls
    /\ LET dest == GetImageFilePath(dp.imf.Name, dp.imf.Id)
           blobpath == GetImageBlobPath(dp.imf.Name, dp.imf.Blobsum)
       IN IF Stat(lfs, dest)
          THEN /\ DoPullReturn("failed to create image file: file exists")
               /\ UNCHANGED lfs
          ELSE IF ~ok
          THEN /\ DoPullReturn("failed to create image file")
               /\ UNCHANGED lfs
          ELSE /\ lfs' = WriteFile(lfs, dest, lfs[blobpath])
               /\ dp' = [dp EXCEPT !.pc = "writeManifest"]
               /\ UNCHANGED <<pull, cresult>>

\* part_000:98-103 and 237-244
writeLocalManifest(ok) ==
    /\ dp.pc = "writeManifest"
    /\ UNCHANGED calls
    /\ IF ~ok
       THEN /\ DoPullReturn("failed to update manifest file")
            /\ UNCHANGED lfs
       ELSE /\ lfs' = WriteFile(lfs, GetImageManifestPath(dp.imf.Name,
                                         dp.imf.Id), [json |-> dp.imf])
            /\ DoPullReturn(NoErr)

-----------------------------------------------------------------------------
(* The client                                                              *)

ClientInit ==
    /\ ServerInit
    /\ \E ids \in SUBSET RemoteIds : lfs = LocalStore(ids)
    /\ pull = IdlePull
    /\ dp = IdleDoPull
    /\ cresult = NoClientResult
    /\ calls = 0
    /\ RestAtRest

ClientNext ==
    \/ \E reference \in ReferenceInputs, outcome \in Outcomes :
          PullStart(RepoName, reference, outcome) /\ UNCHANGED outsideClient
    \/ \E outcome \in Outcomes : BuildChainStep(outcome) /\ UNCHANGED outsideClient
    \/ PullReverse /\ UNCHANGED outsideClient
    \/ \E id \in RemoteIds :
          DoPullCall(RemoteManifest(id)) /\ UNCHANGED outsideClient
    \/ \E outcome \in Outcomes : GetBlobManifest(outcome) /\ UNCHANGED outsideClient
    \/ \E fetch \in Fetches : DownloadChunk(fetch) /\ UNCHANGED outsideClient
    \/ CheckChunk /\ UNCHANGED outsideClient
    \/ \E ok \in BOOLEAN : CombineChunks(ok) /\ UNCHANGED outsideClient
    \/ \E ok \in BOOLEAN : RenameBlob(ok) /\ UNCHANGED outsideClient
    \/ \E ok \in BOOLEAN : LinkImageFile(ok) /\ UNCHANGED outsideClient
    \/ \E ok \in BOOLEAN : writeLocalManifest(ok) /\ UNCHANGED outsideClient

SpecClient == ClientInit /\ [][ClientNext]_vars

-----------------------------------------------------------------------------
(* Claims about the pull client                                            *)

\* the files outside the scratch directories
Durable(fs) == [q \in {r \in DOMAIN fs : r[1] # "dl"} |-> fs[q]]

SameFile(fs1, fs2, path) ==
    /\ Stat(fs1, path) <=> Stat(fs2, path)
    /\ Stat(fs1, path) => fs1[path] = fs2[path]

Committed(fs, imf) ==
    /\ Stat(fs, GetImageBlobPath(imf.Name, imf.Blobsum))
    /\ Stat(fs, GetImageFilePath(imf.Name, imf.Id))
    /\ Stat(fs, GetImageManifestPath(imf.Name, imf.Id))

\* C3: when a chunk's local bytes do not hash to its declared digest after
\* the transfer, downloadChunks returns an error before the reconstructed
\* file is created and doPull renames, links and writes nothing: up to and
\* including the check no step changes a file outside the scratch chunks,
\* the check of a corrupted chunk ends doPull with the error, and the
\* chunks are combined only when every one of them verifies.
C3_BeforeCombine ==
    dp.pc \in {"getBlobManifest", "download", "check"} =>
        /\ Durable(lfs') = Durable(lfs)
        /\ SameFile(lfs', lfs, ImgFile)

C3_CorruptAborts ==
    (/\ dp.pc = "check"
     /\ ~checkChunkDigest(lfs, ChunkFile(dp.i), dp.chunks[dp.i])) =>
        /\ dp'.pc = "idle"
        /\ lfs' = lfs
        /\ pull.pc # "loop" => (cresult'.op = "doPull"
                                /\ cresult'.err = "chunk corrupted")

C3_AllVerified ==
    dp.pc = "combine" =>
        \A j \in 1..Len(dp.chunks) :
            checkChunkDigest(lfs, ChunkFile(j), dp.chunks[j])

C3_CorruptChunkNeverCommitted ==
    /\ []C3_AllVerified
    /\ [][C3_BeforeCombine /\ C3_CorruptAborts]_vars

C3_Witness ==
    /\ cresult.op = "doPull"
    /\ cresult.err = "chunk corrupted"
    /\ ~Stat(lfs, GetImageBlobPath(cresult.imf.Name, cresult.imf.Blobsum))
    /\ \E q \in DOMAIN lfs :
          /\ q[1] = "dl"
          /\ q[3] = cresult.imf.Blobsum
          /\ q[4] = GetChunkDigest(ChunkX)
          /\ lfs[q] = ChunkX \o <<9>>

\* C4: a Pull of a leaf whose transfers all succeed, and whose image file is
\* not there yet, commits every manifest of the chain it resolved (the leaf
\* and its ancestors up to the nearest one present locally).
C4_PullCommitsChain ==
    (/\ cresult.op = "Pull"
     /\ ~cresult.failed
     /\ cresult.err # "already exists") =>
        /\ cresult.err = NoErr
        /\ Committed(lfs, cresult.imf)
        /\ \A k \in 1..Len(cresult.chain) : Committed(lfs, cresult.chain[k])

\* C10: Pull surfaces every failure: when the fetch of the leaf manifest or
\* of a parent manifest failed, Pull returns a non-nil error; and Pull
\* returns success only when every manifest of the chain is committed.
C10_PullSurfacesFailures ==
    cresult.op = "Pull" =>
        /\ cresult.failed => cresult.err # NoErr
        /\ cresult.err = NoErr =>
              /\ Committed(lfs, cresult.imf)
              /\ \A k \in 1..Len(cresult.chain) :
                    Committed(lfs, cresult.chain[k])

-----------------------------------------------------------------------------
(* repoadmin: uploadFile                                                   *)

\* the largest file and the largest v1.BlobChunkSize looked at
MaxSize == 4

MaxChunkSize == 3

\* a file of the given size, each byte naming its position
FileOfSize(size) == [k \in 1..size |-> k]

\* a variant of BufferLen: the whole cache is used for every chunk
BufferLenWholeCache(offset, size, C) == C

\* repoadmin.go:60-64: len(buffer) for the chunk at offset
BufferLen(offset, size, C) ==
    IF offset + C <= size THEN C ELSE size % C

\* fh.ReadAt(buffer, offset) with len(buffer) = n: n bytes from offset, or
\* what the file has and an error
ReadAt(file, n, offset) ==
    IF offset + n <= Len(file)
    THEN [err |-> NoErr, data |-> SubSeq(file, offset + 1, offset + n)]
    ELSE [err |-> "EOF", data |-> SubSeq(file, offset + 1, Len(file))]

\* repoadmin.go:56-57 and 59: the frame when the loop is entered
UploadStart(size, C) ==
    [IdleUpload EXCEPT !.pc = "read", !.file = FileOfSize(size),
                       !.size = size, !.C = C]

UploadReturn(step, err) ==
    up' = [up EXCEPT !.pc = "done", !.err = err, !.failedAt = step]

\* repoadmin.go:59-69: the loop test, the buffer and the read
UploadRead(ok) ==
    /\ up.pc = "read"
    /\ up.offset < up.size
    /\ LET n == BufferLen(up.offset, up.size, up.C)
           r == ReadAt(up.file, n, up.offset)
       IN IF ~ok \/ r.err # NoErr
          THEN UploadReturn("read", IF ok THEN r.err ELSE "read error")
          ELSE up' = [up EXCEPT !.pc = "hash", !.buffer = r.data]

\* repoadmin.go:71-74
UploadHash(ok) ==
    /\ up.pc = "hash"
    /\ IF ~ok
       THEN UploadReturn("hash", "failed to compute hash")
       ELSE up' = [up EXCEPT !.pc = "writer",
                             !.subhash = GetChunkDigest(up.buffer)]

\* repoadmin.go:76-81: the writer of the chunk (session, index, subhash)
UploadGetChunkWriter(ok) ==
    /\ up.pc = "writer"
    /\ IF ~ok
       THEN UploadReturn("writer", "failed to get chunk writer")
       ELSE up' = [up EXCEPT !.pc = "write",
                             !.writer = [index |-> up.index,
                                         subhash |-> up.subhash,
                                         data |-> <<>>]]

\* repoadmin.go:83-86
UploadWrite(ok) ==
    /\ up.pc = "write"
    /\ IF ~ok
       THEN UploadReturn("write", "failed to write chunk")
       ELSE up' = [up EXCEPT !.pc = "commit", !.writer.data = up.buffer]

\* a variant of UploadCommit: the error of Commit is dropped
UploadCommitErrorDropped(ok) ==
    /\ up.pc = "commit"
    /\ up' = [up EXCEPT !.pc = "read",
                        !.failedAt = IF ok THEN "" ELSE "commit",
                        !.chunks = IF ok THEN Append(@, up.writer) ELSE @,
                        !.writer = <<>>,
                        !.offset = @ + up.C,
                        !.index = @ + 1]

\* repoadmin.go:88-92 and the index++ of line 59
UploadCommit(ok) ==
    /\ up.pc = "commit"
    /\ IF ~ok
       THEN UploadReturn("commit", "failed to commit chunk")
       ELSE up' = [up EXCEPT !.pc = "read",
                             !.chunks = Append(@, up.writer),
                             !.writer = <<>>,
                             !.offset = @ + up.C,
                             !.index = @ + 1]

\* repoadmin.go:59 (the loop ends) and 95-99
UploadComplete(ok) ==
    /\ up.pc = "read"
    /\ ~(up.offset < up.size)
    /\ up' = [up EXCEPT !.pc = "done",
                        !.completes = @ + 1,
                        !.failedAt = IF ok THEN "" ELSE "complete",
                        !.err = IF ok THEN NoErr
                                ELSE "failed to complete upload task"]

UploadFileInit ==
    /\ ServerInit
    /\ ClientAtRest
    /\ done = <<>>
    /\ \E size \in 0..MaxSize, C \in 1..MaxChunkSize :
          up = UploadStart(size, C)

UploadFileNext ==
    \/ \E ok \in BOOLEAN : UploadRead(ok) /\ UNCHANGED outsideUpload
    \/ \E ok \in BOOLEAN : UploadHash(ok) /\ UNCHANGED outsideUpload
    \/ \E ok \in BOOLEAN : UploadGetChunkWriter(ok) /\ UNCHANGED outsideUpload
    \/ \E ok \in BOOLEAN : UploadWrite(ok) /\ UNCHANGED outsideUpload
    \/ \E ok \in BOOLEAN : UploadCommit(ok) /\ UNCHANGED outsideUpload
    \/ \E ok \in BOOLEAN : UploadComplete(ok) /\ UNCHANGED outsideUpload

SpecUploadFile == UploadFileInit /\ [][UploadFileNext]_vars

\* what uploadFile writes when no step fails: the chunks of the loop of
\* repoadmin.go:59-93, from offset on
RECURSIVE UploadChunksFrom(_, _, _, _)
UploadChunksFrom(file, size, C, offset) ==
    IF offset < size
    THEN <<ReadAt(file, BufferLen(offset, size, C), offset).data>>
            \o UploadChunksFrom(file, size, C, offset + C)
    ELSE <<>>

UploadSplit(file, C) == UploadChunksFrom(file, Len(file), C, 0)

\* ceil(size / C)
Ceil(size, C) == (size + C - 1) \div C

Min(a, b) == IF a <= b THEN a ELSE b

RECURSIVE SumLen(_)
SumLen(cs) == IF cs = <<>> THEN 0 ELSE Len(Head(cs).data) + SumLen(Tail(cs))

\* the chunk committed with index k - 1 holds the bytes
\* [(k-1)*C, min(k*C, size)) of the file, and they are not empty
C15_ChunkCovers(k) ==
    /\ up.chunks[k].index = k - 1
    /\ up.chunks[k].data =
          SubSeq(up.file, (k - 1) * up.C + 1, Min(k * up.C, up.size))
    /\ Len(up.chunks[k].data) >= 1
    /\ Len(up.chunks[k].data) <= up.C
    /\ k < Ceil(up.size, up.C) => Len(up.chunks[k].data) = up.C

C15_AllWritten ==
    LET n == Ceil(up.size, up.C)
    IN /\ Len(up.chunks) = n
       /\ SumLen(up.chunks) = up.size
       /\ [k \in 1..n |-> up.chunks[k].data] = UploadSplit(up.file, up.C)
       /\ n > 0 => Len(up.chunks[n].data) = up.size - (n - 1) * up.C

\* C15: for every size >= 0 and chunk size C > 0, uploadFile writes the
\* chunks 0..ceil(size/C)-1; chunk i covers the bytes
\* [i*C, min((i+1)*C, size)), every chunk but the last has C bytes, the last
\* has size-(n-1)*C bytes (between 1 and C), no chunk is empty, no read runs
\* past the file, and the lengths add up to size.
C15_ChunkArithmetic ==
    /\ \A k \in 1..Len(up.chunks) : C15_ChunkCovers(k)
    /\ Len(up.chunks) <= Ceil(up.size, up.C)
    /\ up.err # "EOF"
    /\ (up.pc = "done" /\ up.failedAt = "") => C15_AllWritten

\* an upload that ended well with a short last chunk after a full one
C15_Witness ==
    /\ up.pc = "done"
    /\ up.err = NoErr
    /\ Len(up.chunks) >= 2
    /\ Len(up.chunks[Len(up.chunks)].data) < up.C

\* what holds of the chunks and of CompleteUpload in every state
C16_Order ==
    /\ up.pc \in {"read", "hash", "writer", "write", "commit"} =>
          /\ Len(up.chunks) = up.index
          /\ up.failedAt = ""
          /\ up.completes = 0
    /\ up.pc \in {"read", "hash", "writer"} => up.writer = <<>>
    /\ up.pc \in {"write", "commit"} =>
          /\ up.writer.index = up.index
          /\ up.writer.subhash = GetChunkDigest(up.buffer)
    /\ \A k \in 1..Len(up.chunks) :
          /\ up.chunks[k].index = k - 1
          /\ up.chunks[k].subhash = GetChunkDigest(up.chunks[k].data)
    /\ up.completes <= 1
    /\ up.completes = 1 =>
          /\ up.pc = "done"
          /\ SumLen(up.chunks) = up.size
          /\ up.failedAt \in {"", "complete"}
    /\ up.failedAt # "" => (up.pc = "done" /\ up.err # NoErr)
    /\ up.failedAt \notin {"", "complete"} => up.completes = 0
    /\ (up.pc = "done" /\ up.err = NoErr) =>
          (up.completes = 1 /\ up.failedAt = "")

\* after a failure nothing more is written or signalled
C16_NothingAfterFailure ==
    up.failedAt # "" =>
        (up'.chunks = up.chunks /\ up'.writer = up.writer
            /\ up'.completes = up.completes)

\* C16: in uploadFile chunk i is written and committed before chunk i+1 is
\* read, each chunk is keyed by its index and the digest of the bytes
\* written, CompleteUpload is signalled at most once and only after every
\* chunk is committed; when a read, hash, writer, write or commit fails,
\* uploadFile returns an error, no later chunk is written and
\* CompleteUpload is not signalled.
C16_UploadOrder == []C16_Order /\ [][C16_NothingAfterFailure]_vars

\* a commit failed after an earlier chunk was committed
C16_Witness ==
    /\ up.pc = "done"
    /\ up.failedAt = "commit"
    /\ Len(up.chunks) >= 1
    /\ up.completes = 0

-----------------------------------------------------------------------------
(* The client on a scratch directory that is not empty                     *)

\* what a file left in the scratch directory may hold, for a file that is
\* to hold bytes: a part of them, all of them, more, or something else
Leftovers(bytes) ==
    {SubSeq(bytes, 1, Len(bytes) - 1), bytes, bytes \o <<9>>, <<9>>}

\* the scratch directories of one image: the reconstructed file and the
\* chunk files, each absent or left over
ScratchDirs(id) ==
    LET imf == RemoteManifest(id)
        dldir == GetBlobDownloadDir(imf.Name, imf.Blobsum)
        chunks == RemoteBlobManifest(imf.Blobsum)
        WithFile(S, path, bytes) ==
            S \cup {WriteFile(fs, path, c) : fs \in S, c \in Leftovers(bytes)}
        RECURSIVE WithChunks(_, _)
        WithChunks(S, j) ==
            IF j > Len(chunks) THEN S
            ELSE WithChunks(WithFile(S, Join(dldir, chunks[j]),
                                     ChunkBytes(chunks[j])), j + 1)
    IN WithChunks(WithFile({<<>>}, Join(dldir, imf.Blobsum),
                           Concat(RemoteChunks(id))), 1)

LeftoverInit ==
    /\ ServerInit
    /\ \E id \in RemoteIds : lfs \in ScratchDirs(id)
    /\ pull = IdlePull
    /\ dp = IdleDoPull
    /\ cresult = NoClientResult
    /\ calls = 0
    /\ RestAtRest

SpecLeftover == LeftoverInit /\ [][ClientNext]_vars

\* C12: for a blob B that uploadFile split with a chunk size C, a doPull
\* that succeeds leaves exactly the bytes of B in the blob file, and
\* splitting those bytes again gives the digest sequence of the blob
\* manifest, whatever the scratch directory held before.
C12_RoundTrip ==
    (cresult.op = "doPull" /\ cresult.err = NoErr) =>
        LET imf == cresult.imf
            B == Concat(RemoteChunks(imf.Id))
            got == lfs[GetImageBlobPath(imf.Name, imf.Blobsum)]
        IN \A C \in 1..MaxChunkSize :
              UploadSplit(B, C) = RemoteChunks(imf.Id) =>
                 /\ got = B
                 /\ [j \in 1..Len(UploadSplit(got, C)) |->
                        GetChunkDigest(UploadSplit(got, C)[j])]
                      = RemoteBlobManifest(imf.Blobsum)

-----------------------------------------------------------------------------
(* Pull of an image that is already there                                  *)

\* a step that is the first step of Pull: the call is counted and Pull
\* either returns or starts on the chain
C13_IsPullStart ==
    /\ pull.pc = "idle"
    /\ dp.pc = "idle"
    /\ calls' = calls + 1
    /\ (pull'.pc = "buildChain" \/ cresult'.op = "Pull")

C13_FailFastStep ==
    C13_IsPullStart =>
        /\ pull'.pc = "buildChain" =>
              ~Stat(lfs, GetImageFilePath(pull'.name, pull'.imf.Id))
        /\ (/\ cresult'.op = "Pull"
            /\ Stat(lfs, GetImageFilePath(cresult'.name, cresult'.ref))) =>
              /\ cresult'.err # NoErr
              /\ cresult'.chain = <<>>
              /\ lfs' = lfs
              /\ pull' = IdlePull
              /\ dp' = IdleDoPull

\* C13: Pull(name, reference) of a leaf whose image file already exists
\* returns an error in its first step: the parent chain is not resolved,
\* no blob manifest or chunk is fetched and no local file is written.
C13_FailFast == [][C13_FailFastStep]_vars

\* Pull answered "already exists" for an image whose parent is not there
C13_Witness ==
    /\ cresult.op = "Pull"
    /\ cresult.err = "already exists"
    /\ cresult.imf.Parent # ""
    /\ ~Stat(lfs, GetImageManifestPath(cresult.name, cresult.imf.Parent))
    /\ pull = IdlePull

-----------------------------------------------------------------------------
(* Two callers of PutManifest at once                                      *)

ConcCallers == {1, 2}

NoCall ==
    [name |-> <<>>, ref |-> <<>>, imf |-> NoManifest, err |-> "none"]

\* the manifests and references the two callers push: well-formed
\* manifests, to a tag or to a digest
ConcManifests == {m \in ManifestInputs : ManifestInvariant(m)}

ConcRefs == {<<"t">>, IdAA, IdAB}

\* the call of caller p that returns in this step, if one does
Recorded(p) ==
    done' = IF pm'[p].pc = "idle"
            THEN [done EXCEPT ![p] =
                    [name |-> result'.name, ref |-> result'.ref,
                     imf |-> result'.imf, err |-> result'.err]]
            ELSE done

ConcInit ==
    /\ storage = <<>>
    /\ pm = [p \in ConcCallers |-> IdleFrame]
    /\ result = NoResult
    /\ uuids = 0
    /\ ClientAtRest
    /\ up = IdleUpload
    /\ done = [p \in ConcCallers |-> NoCall]

\* each caller makes one call; the storage writes of the two interleave
ConcNext ==
    \/ \E p \in ConcCallers, name \in NameInputs, ref \in ConcRefs,
          imf \in ConcManifests :
            /\ done[p] = NoCall
            /\ PutManifestBegin(p, name, ref, imf)
            /\ Recorded(p)
            /\ UNCHANGED <<clientVars, up>>
    \/ \E p \in ConcCallers, ok \in BOOLEAN :
            PutManifestWrite(p, ok) /\ Recorded(p)
                /\ UNCHANGED <<clientVars, up>>
    \/ \E p \in ConcCallers, ok \in BOOLEAN :
            PutManifestTag(p, ok) /\ Recorded(p)
                /\ UNCHANGED <<clientVars, up>>

SpecConcurrent == ConcInit /\ [][ConcNext]_vars

\* both callers are back, without an error, from a push with the same name
\* and reference
BothPushed ==
    /\ done[1].err = NoErr
    /\ done[2].err = NoErr
    /\ done[1].name = done[2].name
    /\ done[1].ref = done[2].ref

C14_SameTag ==
    (/\ BothPushed
     /\ ~ParseImageIdOk(ToLower(done[1].ref))
     /\ ToLower(done[1].imf.Id) # ToLower(done[2].imf.Id)) =>
        LET name == done[1].name
            byTag == GetManifest(storage, name, done[1].ref, TRUE)
            Stored(m) == getImageJson(storage,
                            imageJsonPathSpec(NoUser, name, ToLower(m.Id)))
        IN /\ \A p \in ConcCallers :
                /\ Stored(done[p].imf).err = NoErr
                /\ Stored(done[p].imf).val \in {done[1].imf, done[2].imf}
           /\ byTag.err = NoErr
           /\ byTag.val \in {done[1].imf, done[2].imf}

C14_SameDigest ==
    (/\ BothPushed
     /\ ParseImageIdOk(ToLower(done[1].ref))
     /\ done[1].imf = done[2].imf) =>
        storage = PutContent(<<>>,
                      imageJsonPathSpec(NoUser, ToLower(done[1].imf.Id),
                                        ToLower(done[1].imf.Id)),
                      String(done[1].imf))

\* C14: after two concurrent PutManifest calls to the same tag with the
\* manifests m1 and m2 have both returned, both manifests are stored under
\* the name and the tag of the name resolves to m1 or to m2; after two
\* concurrent pushes of the same manifest by its digest the storage is what
\* a single push leaves.
C14_ConcurrentPush == C14_SameTag /\ C14_SameDigest

-----------------------------------------------------------------------------
(* downloadChunk on a scratch file that is already there                   *)

\* one call of downloadChunk that went on to the check of its chunk
C17_DownloadStep ==
    (dp.pc = "download" /\ dp'.pc = "check") =>
        LET subhash == dp.chunks[dp.i]
            dlfile == ChunkFile(dp.i)
        IN IF checkChunkDigest(lfs, dlfile, subhash)
           THEN dp'.got.kind = "skip" /\ lfs' = lfs
           ELSE /\ dp'.got.kind = "body"
                /\ dp'.got.body = ChunkBytes(subhash) =>
                      /\ lfs'[dlfile] = ChunkBytes(subhash)
                      /\ checkChunkDigest(lfs', dlfile, subhash)

\* C17: for each chunk, a scratch file that exists and hashes to the digest
\* is kept and no fetch is issued; otherwise the chunk is fetched, and when
\* the transfer delivers the right bytes the scratch file afterwards holds
\* exactly those bytes and passes the check, whatever it held before.
C17_ChunkFetch == [][C17_DownloadStep]_vars

-----------------------------------------------------------------------------
(* The client when only Pull is called                                     *)

\* every image of ids has its parent in ids
ParentClosed(ids) ==
    \A id \in ids : RemoteParent(id) # "" => RemoteParent(id) \in ids

\* the local store holds images together with their ancestors
PullInit ==
    /\ ServerInit
    /\ \E ids \in SUBSET RemoteIds :
          ParentClosed(ids) /\ lfs = LocalStore(ids)
    /\ pull = IdlePull
    /\ dp = IdleDoPull
    /\ cresult = NoClientResult
    /\ calls = 0
    /\ RestAtRest

\* part_000:60-64: doPull on each manifest of the chain, in the order the
\* reversal left
PullLoop ==
    \/ DoPullCall(Head(pull.res))
    \/ \E outcome \in Outcomes : GetBlobManifest(outcome)
    \/ \E fetch \in Fetches : DownloadChunk(fetch)
    \/ CheckChunk
    \/ \E ok \in BOOLEAN : CombineChunks(ok)
    \/ \E ok \in BOOLEAN : RenameBlob(ok)
    \/ \E ok \in BOOLEAN : LinkImageFile(ok)
    \/ \E ok \in BOOLEAN : writeLocalManifest(ok)

\* part_000:56-66: what Pull does once buildChain has returned the chain
PullAfterChain ==
    IF pull.pc = "loop" THEN PullLoop ELSE PullReverse

PullNext ==
    \/ \E reference \in ReferenceInputs, outcome \in Outcomes :
          PullStart(RepoName, reference, outcome) /\ UNCHANGED outsideClient
    \/ \E outcome \in Outcomes :
          BuildChainStep(outcome) /\ UNCHANGED outsideClient
    \/ PullAfterChain /\ UNCHANGED outsideClient

SpecPull == PullInit /\ [][PullNext]_vars

-----------------------------------------------------------------------------
(* The commit steps of doPull and a retry after one of them failed         *)

\* a local manifest has its image file and its blob next to it
C19_ManifestImpliesFiles ==
    \A q \in DOMAIN lfs :
        q[1] = "manifest" =>
            LET m == lfs[q].json
            IN /\ Stat(lfs, GetImageFilePath(m.Name, m.Id))
               /\ Stat(lfs, GetImageBlobPath(m.Name, m.Blobsum))

\* doPull of an image that has no local manifest is not refused because
\* the image file is there
C19_RetryNotRefused ==
    (/\ cresult.op = "doPull"
     /\ ~Stat(lfs, GetImageManifestPath(cresult.imf.Name, cresult.imf.Id))) =>
        cresult.err # "failed to create image file: file exists"

\* C19: doPull commits in the order blob rename, hard link, manifest
\* write, and stops at the first step that fails; so a local manifest has
\* its image file and blob, and a pull tried again after one of the three
\* steps failed is not stopped by what the failed attempt left.
C19_CommitOrder == C19_ManifestImpliesFiles /\ C19_RetryNotRefused

-----------------------------------------------------------------------------
(* buildChain comes to an end                                              *)

\* every turn of the loop of buildChain that can be taken is taken: the
\* loop runs in one goroutine and each request returns
SpecChain ==
    /\ ClientInit
    /\ [][PullNext]_vars
    /\ WF_vars(\E outcome \in Outcomes :
                  BuildChainStep(outcome) /\ UNCHANGED outsideClient)

\* following Parent from id ends at a manifest without parent, within n
\* steps
RECURSIVE EndsWithin(_, _)
EndsWithin(id, n) ==
    \/ RemoteParent(id) = ""
    \/ n > 0 /\ EndsWithin(RemoteParent(id), n - 1)

Acyclic(id) == EndsWithin(id, Cardinality(RemoteIds))

\* how many parents a manifest of a chain without a cycle has above it
RECURSIVE Depth(_)
Depth(id) == IF RemoteParent(id) = "" THEN 0 ELSE 1 + Depth(RemoteParent(id))

C20_Terminates ==
    (pull.pc = "buildChain" /\ Acyclic(pull.imf.Id))
        ~> (pull.pc # "buildChain")

\* on a chain without a cycle no manifest is taken twice, and the chain
\* built so far and what is still above the cursor are no longer than the
\* chain above the leaf
C20_AtMostOnce ==
    (pull.pc \in {"buildChain", "reverse"} /\ Acyclic(pull.imf.Id)) =>
        /\ \A i, j \in 1..Len(pull.res) :
              pull.res[i].Id = pull.res[j].Id => i = j
        /\ Len(pull.res) + Depth(pull.cursor.Id) <= 1 + Depth(pull.imf.Id)

\* a turn of the loop goes on exactly when the parent was fetched and has
\* no local manifest, and then the parent is the next element of the chain;
\* the loop ends at an empty Parent, at a parent that has a local manifest
\* or at a fetch that fails, and at nothing else
C20_TurnStep ==
    pull.pc = "buildChain" =>
        LET parent == GetImageManifestPath(pull.cursor.Name,
                                           pull.cursor.Parent)
        IN /\ pull'.pc = "buildChain" /\ pull' # pull =>
                /\ pull.cursor.Parent # ""
                /\ ~Stat(lfs, parent)
                /\ pull'.res = Append(pull.res,
                                      RemoteManifest(pull.cursor.Parent))
                /\ pull'.cursor = RemoteManifest(pull.cursor.Parent)
                /\ Acyclic(pull.imf.Id) =>
                      Depth(pull'.cursor.Id) < Depth(pull.cursor.Id)
           /\ pull'.pc = "reverse" =>
                /\ pull.cursor.Parent = "" \/ Stat(lfs, parent)
                /\ pull'.res = pull.res
           /\ pull'.pc = "idle" => (cresult'.failed /\ cresult'.chain = <<>>)

\* C20: buildChain comes to an end for every chain without a cycle, each
\* turn of its loop moving the cursor one manifest up the chain, and no
\* manifest is in the chain twice; it ends only at an empty Parent, at the
\* first ancestor with a local manifest or at the first fetch error, so
\* that on a cycle with no member locally present only a fetch error ends
\* it.
C20_BuildChainEnds ==
    /\ C20_Terminates
    /\ []C20_AtMostOnce
    /\ [][C20_TurnStep]_vars

\* buildChain walked the whole chain C, B, A and ended at the empty Parent
C20_Witness ==
    /\ pull.pc = "reverse"
    /\ Len(pull.res) = 3
    /\ pull.res[3].Parent = ""

====
